---- MODULE Spec2Model ----
(***************************************************************************)
(* Model of the LCD driver of src/lcd.py: a character LCD (HD44780 style)  *)
(* driven in 4-bit mode through an 8-bit I2C port expander.                *)
(*                                                                         *)
(* The driver object holds three flag bytes.  Every public method is one   *)
(* action; the action records everything the method did on the bus, in     *)
(* order, in the variable out: the calls of _expanderWrite, the buffers    *)
(* handed to the I2C transport and the sleeps.                             *)
(***************************************************************************)
EXTENDS Integers, Sequences, FiniteSets, TLC

VARIABLES
    _backlightval,      \* self._backlightval
    _displaycontrol,    \* self._displaycontrol
    _displaymode,       \* self._displaymode
    out,                \* what the most recent public call did, in order
    raised,             \* "none", or the exception the most recent call raised
    op,                 \* the most recent public call: name, arguments, flags before it
    lcdDisplayControl,  \* low 3 bits of the last Display Control command the LCD received
    lcdEntryMode        \* low 2 bits of the last Entry Mode Set command the LCD received

vars == <<_backlightval, _displaycontrol, _displaymode, out, raised, op,
          lcdDisplayControl, lcdEntryMode>>

----------------------------------------------------------------------------
(* Program constants, src/lcd.py lines 7-55.                               *)

LCD_CMD_CLEARDISPLAY == 1
LCD_CMD_RETURNHOME == 2
LCD_CMD_ENTRYMODESET == 4
LCD_CMD_DISPLAYCONTROL == 8
LCD_CMD_CURSORSHIFT == 16
LCD_CMD_FUNCTIONSET == 32
LCD_CMD_SETCGRAMADDR == 64
LCD_CMD_SETDDRAMADDR == 128

LCD_ENTRYRIGHT == 0
LCD_ENTRYLEFT == 2
LCD_ENTRYSHIFTINCREMENT == 1
LCD_ENTRYSHIFTDECREMENT == 0

LCD_DISPLAYON == 4
LCD_DISPLAYOFF == 0
LCD_CURSORON == 2
LCD_CURSOROFF == 0
LCD_BLINKON == 1
LCD_BLINKOFF == 0

LCD_DISPLAYMOVE == 8
LCD_MOVERIGHT == 4
LCD_MOVELEFT == 0

LCD_4BITMODE == 0
LCD_2LINE == 8
LCD_5x8DOTS == 0

LCD_BACKLIGHT == 8
LCD_NOBACKLIGHT == 0

LCD_MODE_ENABLE == 4
LCD_MODE_RS == 1

----------------------------------------------------------------------------
(* Bounds of the inputs the actions draw.                                  *)

MaxStrLen == 2          \* longest string given to writeString
MaxCol == 15            \* documented column range of setCursorPosition
MaxRow == 1             \* documented row range of setCursorPosition
MaxLocation == 7        \* documented location range of loadCustomCharacter

----------------------------------------------------------------------------
(* Python's integer operators on non-negative integers.                    *)

RECURSIVE BitAnd(_, _)
BitAnd(a, b) ==
    IF a = 0 \/ b = 0 THEN 0
    ELSE (a % 2) * (b % 2) + 2 * BitAnd(a \div 2, b \div 2)

RECURSIVE BitOr(_, _)
BitOr(a, b) ==
    IF a = 0 THEN b
    ELSE IF b = 0 THEN a
    ELSE (IF a % 2 = 1 \/ b % 2 = 1 THEN 1 ELSE 0) + 2 * BitOr(a \div 2, b \div 2)

\* a & ~m: ~m is the infinite two's complement of m, so the bits of m are cleared
RECURSIVE BitAndNot(_, _)
BitAndNot(a, m) ==
    IF a = 0 THEN 0
    ELSE (a % 2) * (1 - (m % 2)) + 2 * BitAndNot(a \div 2, m \div 2)

ShiftLeft(a, n) == a * 2 ^ n

\* truth value of an integer argument in `if state:`
Truthy(x) == x # 0

----------------------------------------------------------------------------
(* Python values that reach ord(): a one-character string or an integer.   *)

StrVal(c) == [kind |-> "str", val |-> c]
IntVal(n) == [kind |-> "int", val |-> n]

\* ord(c) is defined on one-character strings; on an integer it raises TypeError
ordDefined(c) == c.kind = "str"
ord(c) == c.val

----------------------------------------------------------------------------
(* What a call leaves behind in out.                                       *)

CallEv(d) == [t |-> "expanderWrite", v |-> d, buf |-> <<>>]
BusEv(d, buffer) == [t |-> "write", v |-> d, buf |-> buffer]
SleepEv(ms) == [t |-> "sleep", v |-> ms, buf |-> <<>>]

sleep(ms) == <<SleepEv(ms)>>

\* bytearray(n): n zero bytes
bytearray(n) == [i \in 1..n |-> 0]

----------------------------------------------------------------------------
(* Low level commands.  self is the record of the three flag bytes.        *)

_write(data) ==
    LET buffer == Append(bytearray(1), data)
    IN  <<BusEv(data, buffer)>> \o sleep(2)

_expanderWrite(self, data) ==
    <<CallEv(data)>> \o _write(BitOr(data, self._backlightval))

\* _pulseEnable that leaves the enable pin high
_pulseEnable_noClear(self, data) ==
    _expanderWrite(self, BitOr(data, LCD_MODE_ENABLE)) \o sleep(1)
    \o _expanderWrite(self, BitOr(data, LCD_MODE_ENABLE)) \o sleep(1)

_pulseEnable(self, data) ==
    _expanderWrite(self, BitOr(data, LCD_MODE_ENABLE)) \o sleep(1)
    \o _expanderWrite(self, BitAndNot(data, LCD_MODE_ENABLE)) \o sleep(1)

_write4bits(self, data) ==
    _expanderWrite(self, data) \o _pulseEnable(self, data)

\* _send with the two nibbles in the wrong order
_send_lowFirst(self, data, mode) ==
    LET highBits == BitAnd(data, 240)
        lowBits == BitAnd(ShiftLeft(data, 4), 240)
    IN  _write4bits(self, BitOr(lowBits, mode))
        \o _write4bits(self, BitOr(highBits, mode))

_send(self, data, mode) ==
    LET highBits == BitAnd(data, 240)
        lowBits == BitAnd(ShiftLeft(data, 4), 240)
    IN  _write4bits(self, BitOr(highBits, mode))
        \o _write4bits(self, BitOr(lowBits, mode))

_command(self, cmd) == _send(self, cmd, 0)

\* a call's result: what it did, and the exception it ended with
Ok(trace) == [out |-> trace, exc |-> "none"]
Raise(e) == [out |-> <<>>, exc |-> e]
Then(r1, r2) ==
    IF r1.exc # "none" THEN r1
    ELSE [out |-> r1.out \o r2.out, exc |-> r2.exc]

_writeChar(self, char) ==
    IF ordDefined(char) THEN Ok(_send(self, ord(char), LCD_MODE_RS))
    ELSE Raise("TypeError")

\* for x in s: self._writeChar(x)
RECURSIVE ForEachWriteChar(_, _)
ForEachWriteChar(self, s) ==
    IF s = <<>> THEN Ok(<<>>)
    ELSE Then(_writeChar(self, Head(s)), ForEachWriteChar(self, Tail(s)))

----------------------------------------------------------------------------
(* The LCD's side of the bus.  The port expander puts every byte it        *)
(* receives on its pins; the LCD takes the upper four pins and RS in while *)
(* the enable pin is high.                                                 *)

IsWrite(e) == e.t = "write"

\* the bytes of the first n transport writes of w, in order
RECURSIVE BytesOf(_, _)
BytesOf(w, n) ==
    IF n = 0 THEN <<>> ELSE BytesOf(w, n - 1) \o w[n].buf

BusBytes(tr) ==
    LET w == SelectSeq(tr, IsWrite) IN BytesOf(w, Len(w))

EnableHigh(b) == (b \div 4) % 2 = 1

Latched(tr) ==
    LET hi == SelectSeq(BusBytes(tr), EnableHigh)
    IN  [i \in 1..Len(hi) |->
            [nib |-> (hi[i] \div 16) % 16, rs |-> hi[i] % 2]]

\* init starts with four single nibbles; everything else arrives as
\* two nibbles per byte, high nibble first
IsInit(name) == name \in {"__init__", "init"}

Received(name, tr) ==
    LET all == Latched(tr)
        l == IF IsInit(name) THEN SubSeq(all, 5, Len(all)) ELSE all
    IN  [i \in 1..(Len(l) \div 2) |->
            [byte |-> 16 * l[2 * i - 1].nib + l[2 * i].nib, rs |-> l[2 * i - 1].rs]]

\* the low bits of the last command of rcv whose opcode bit is `opcode`
\* (a command byte in opcode .. 2*opcode-1), or old when there is none
IsCommand(c, opcode) == c.rs = 0 /\ c.byte >= opcode /\ c.byte < 2 * opcode

LastCommand(rcv, opcode, old) ==
    LET hits == {i \in 1..Len(rcv) : IsCommand(rcv[i], opcode)}
    IN  IF hits = {} THEN old
        ELSE rcv[CHOOSE i \in hits : \A j \in hits : j <= i].byte - opcode

----------------------------------------------------------------------------
(* The public methods.  Each gives the flags it leaves, what it did and    *)
(* the exception it ended with.                                            *)

Result(self, r) == [self |-> self, out |-> r.out, exc |-> r.exc]

clear(self) ==
    Result(self, Ok(_command(self, LCD_CMD_CLEARDISPLAY) \o sleep(2)))

home(self) ==
    Result(self, Ok(_command(self, LCD_CMD_RETURNHOME) \o sleep(2)))

\* lines 96-117 of init: the sequence sent once the flags are reset
initSequence(s) ==
    _write4bits(s, ShiftLeft(3, 4)) \o sleep(5)
    \o _write4bits(s, ShiftLeft(3, 4)) \o sleep(5)
    \o _write4bits(s, ShiftLeft(3, 4)) \o sleep(5)
    \o _write4bits(s, ShiftLeft(2, 4))
    \o _command(s, BitOr(BitOr(BitOr(LCD_CMD_FUNCTIONSET, LCD_4BITMODE),
                               LCD_2LINE), LCD_5x8DOTS))
    \o _command(s, BitOr(LCD_CMD_DISPLAYCONTROL, s._displaycontrol))
    \o _command(s, BitOr(LCD_CMD_ENTRYMODESET, s._displaymode))
    \o clear(s).out
    \o home(s).out

\* init that forgets lines 91-93 and keeps the flags it finds
init_keepFlags(self) == Result(self, Ok(initSequence(self)))

init(self) ==
    LET s == [_backlightval |-> LCD_BACKLIGHT,
              _displaycontrol |->
                  BitOr(BitOr(LCD_DISPLAYON, LCD_CURSOROFF), LCD_BLINKOFF),
              _displaymode |-> BitOr(LCD_ENTRYLEFT, LCD_ENTRYSHIFTDECREMENT)]
    IN  Result(s, Ok(initSequence(s)))

setBacklight(self, val) ==
    LET s == [self EXCEPT !._backlightval =
                  IF val = 0 THEN LCD_NOBACKLIGHT ELSE LCD_BACKLIGHT]
    IN  Result(s, Ok(_expanderWrite(s, 0)))

loadCustomCharacter(self, char_arr, location) ==
    Result(self,
        Then(Ok(_command(self, BitOr(LCD_CMD_SETCGRAMADDR, ShiftLeft(location, 3)))),
             ForEachWriteChar(self, char_arr)))

setAutoscroll(self, state) ==
    LET s == [self EXCEPT !._displaymode =
                  IF Truthy(state) THEN BitOr(@, LCD_ENTRYSHIFTINCREMENT)
                  ELSE BitAndNot(@, LCD_ENTRYSHIFTINCREMENT)]
    IN  Result(s, Ok(_command(s, BitOr(LCD_CMD_DISPLAYCONTROL, s._displaymode))))

setTextDirection(self, direction) ==
    LET s == [self EXCEPT !._displaymode =
                  IF Truthy(direction) THEN BitOr(@, LCD_ENTRYLEFT)
                  ELSE BitAndNot(@, LCD_ENTRYLEFT)]
    IN  Result(s, Ok(_command(s, BitOr(LCD_CMD_DISPLAYCONTROL, s._displaymode))))

scrollLeft(self) ==
    Result(self, Ok(_command(self,
        BitOr(BitOr(LCD_CMD_CURSORSHIFT, LCD_DISPLAYMOVE), LCD_MOVELEFT))))

scrollRight(self) ==
    Result(self, Ok(_command(self,
        BitOr(BitOr(LCD_CMD_CURSORSHIFT, LCD_DISPLAYMOVE), LCD_MOVERIGHT))))

blinkOn(self, state) ==
    LET s == [self EXCEPT !._displaycontrol =
                  IF Truthy(state) THEN BitOr(@, LCD_BLINKON)
                  ELSE BitAndNot(@, LCD_BLINKON)]
    IN  Result(s, Ok(_command(s, BitOr(LCD_CMD_DISPLAYCONTROL, s._displaycontrol))))

displayOn(self, state) ==
    LET s == [self EXCEPT !._displaycontrol =
                  IF Truthy(state) THEN BitOr(@, LCD_DISPLAYON)
                  ELSE BitAndNot(@, LCD_DISPLAYON)]
    IN  Result(s, Ok(_command(s, BitOr(LCD_CMD_DISPLAYCONTROL, s._displaycontrol))))

\* cursorOn with the mask of blinkOn
cursorOn_blinkMask(self, state) ==
    LET s == [self EXCEPT !._displaycontrol =
                  IF Truthy(state) THEN BitOr(@, LCD_BLINKON)
                  ELSE BitAndNot(@, LCD_BLINKON)]
    IN  Result(s, Ok(_command(s, BitOr(LCD_CMD_DISPLAYCONTROL, s._displaycontrol))))

cursorOn(self, state) ==
    LET s == [self EXCEPT !._displaycontrol =
                  IF Truthy(state) THEN BitOr(@, LCD_CURSORON)
                  ELSE BitAndNot(@, LCD_CURSORON)]
    IN  Result(s, Ok(_command(s, BitOr(LCD_CMD_DISPLAYCONTROL, s._displaycontrol))))

\* `|` binds weaker than `+`: LCD_CMD_SETDDRAMADDR | (col + row * 0x40)
setCursorPosition(self, col, row) ==
    Result(self, Ok(_command(self, BitOr(LCD_CMD_SETDDRAMADDR, col + row * 64))))

writeString(self, string) ==
    Result(self, ForEachWriteChar(self, string))

----------------------------------------------------------------------------
(* The arguments the calls are given.                                      *)

BacklightArgs == {0, 1, 255}
StateArgs == {0, 1, 2}
DirectionArgs == {0, 1}
CharCodes == {65, 243}
Cols == {0, 9, MaxCol}
Rows == 0..MaxRow
Locations == {0, 5, MaxLocation}
Strings == UNION {[1..n -> {StrVal(c) : c \in CharCodes}] : n \in 0..MaxStrLen}
CustomChars ==
    { <<IntVal(0), IntVal(10), IntVal(31), IntVal(31),
        IntVal(14), IntVal(4), IntVal(0), IntVal(0)>>,
      <<IntVal(255), IntVal(170), IntVal(85), IntVal(18),
        IntVal(52), IntVal(128), IntVal(1), IntVal(240)>>,
      <<StrVal(0), StrVal(10), StrVal(31), StrVal(31),
        StrVal(14), StrVal(4), StrVal(0), StrVal(0)>> }

----------------------------------------------------------------------------
(* The state machine: one action per public method.                        *)

Self ==
    [_backlightval |-> _backlightval,
     _displaycontrol |-> _displaycontrol,
     _displaymode |-> _displaymode]

Call(name, args, r) ==
    /\ _backlightval' = r.self._backlightval
    /\ _displaycontrol' = r.self._displaycontrol
    /\ _displaymode' = r.self._displaymode
    /\ out' = r.out
    /\ raised' = r.exc
    /\ op' = [name |-> name, args |-> args, pre |-> Self]
    /\ lcdDisplayControl' =
           LastCommand(Received(name, r.out), LCD_CMD_DISPLAYCONTROL, lcdDisplayControl)
    /\ lcdEntryMode' =
           LastCommand(Received(name, r.out), LCD_CMD_ENTRYMODESET, lcdEntryMode)

\* LCD(drvname): the constructor runs init() on an object without flags
Init ==
    LET r == init([_backlightval |-> 0, _displaycontrol |-> 0, _displaymode |-> 0])
    IN  /\ _backlightval = r.self._backlightval
        /\ _displaycontrol = r.self._displaycontrol
        /\ _displaymode = r.self._displaymode
        /\ out = r.out
        /\ raised = r.exc
        /\ op = [name |-> "__init__", args |-> <<>>, pre |-> r.self]
        /\ lcdDisplayControl =
               LastCommand(Received("__init__", r.out), LCD_CMD_DISPLAYCONTROL, 0)
        /\ lcdEntryMode =
               LastCommand(Received("__init__", r.out), LCD_CMD_ENTRYMODESET, 0)

DoInit == Call("init", <<>>, init(Self))

DoClear == Call("clear", <<>>, clear(Self))

DoHome == Call("home", <<>>, home(Self))

DoSetBacklight ==
    \E val \in BacklightArgs : Call("setBacklight", <<val>>, setBacklight(Self, val))

DoLoadCustomCharacter ==
    \E char_arr \in CustomChars, location \in Locations :
        Call("loadCustomCharacter", <<char_arr, location>>,
             loadCustomCharacter(Self, char_arr, location))

DoSetAutoscroll ==
    \E state \in StateArgs : Call("setAutoscroll", <<state>>, setAutoscroll(Self, state))

\* setTextDirection() without an argument is the call with direction = 0
DoSetTextDirection ==
    \E direction \in DirectionArgs :
        Call("setTextDirection", <<direction>>, setTextDirection(Self, direction))

DoScrollLeft == Call("scrollLeft", <<>>, scrollLeft(Self))

DoScrollRight == Call("scrollRight", <<>>, scrollRight(Self))

DoBlinkOn ==
    \E state \in StateArgs : Call("blinkOn", <<state>>, blinkOn(Self, state))

DoDisplayOn ==
    \E state \in StateArgs : Call("displayOn", <<state>>, displayOn(Self, state))

DoCursorOn ==
    \E state \in StateArgs : Call("cursorOn", <<state>>, cursorOn(Self, state))

DoSetCursorPosition ==
    \E col \in Cols, row \in Rows :
        Call("setCursorPosition", <<col, row>>, setCursorPosition(Self, col, row))

DoWriteString ==
    \E string \in Strings : Call("writeString", <<string>>, writeString(Self, string))

Next ==
    \/ DoInit
    \/ DoClear
    \/ DoHome
    \/ DoSetBacklight
    \/ DoLoadCustomCharacter
    \/ DoSetAutoscroll
    \/ DoSetTextDirection
    \/ DoScrollLeft
    \/ DoScrollRight
    \/ DoBlinkOn
    \/ DoDisplayOn
    \/ DoCursorOn
    \/ DoSetCursorPosition
    \/ DoWriteString

Spec == Init /\ [][Next]_vars

----------------------------------------------------------------------------
(* Reading a call's record.                                                *)

IsCall(e) == e.t = "expanderWrite"
Writes(tr) == SelectSeq(tr, IsWrite)
Calls(tr) == SelectSeq(tr, IsCall)

HasBit(x, bit) == (x \div bit) % 2 = 1
SetEnable(x) == IF HasBit(x, 4) THEN x ELSE x + 4
ClearEnable(x) == IF HasBit(x, 4) THEN x - 4 ELSE x

\* the two nibbles of each byte of bytes, high nibble first
Nibbles(bytes) ==
    [i \in 1..(2 * Len(bytes)) |->
        LET b == bytes[(i + 1) \div 2]
        IN  [nib |-> IF i % 2 = 1 THEN b.byte \div 16 ELSE b.byte % 16, rs |-> b.rs]]

Cmd(b) == [byte |-> b, rs |-> 0]
Data(b) == [byte |-> b, rs |-> 1]

\* milliseconds slept from position a to position b of tr
RECURSIVE SleepSum(_, _, _)
SleepSum(tr, a, b) ==
    IF a > b THEN 0
    ELSE (IF tr[a].t = "sleep" THEN tr[a].v ELSE 0) + SleepSum(tr, a + 1, b)

\* for each enable pulse of tr, the time slept between the write that ends
\* the pulse and the next write (or the end of the call)
Pauses(tr) ==
    LET wr == {i \in 1..Len(tr) : IsWrite(tr[i])}
        NextWrite(p) ==
            IF \E i \in wr : i > p
            THEN CHOOSE i \in wr : i > p /\ \A j \in wr : j > p => i <= j
            ELSE Len(tr) + 1
        hi == SelectSeq([i \in 1..Len(tr) |-> i],
                        LAMBDA i : IsWrite(tr[i]) /\ HasBit(tr[i].v, 4))
    IN  [k \in 1..Len(hi) |->
            LET q == NextWrite(hi[k])
            IN  IF q > Len(tr) THEN 0 - 1
                ELSE SleepSum(tr, q + 1, NextWrite(q) - 1)]

FlagsUnchanged == Self = op.pre

----------------------------------------------------------------------------
\* C1: every byte that goes through _send reaches the LCD as exactly two
\* 4-bit transactions, the high nibble first and the low nibble second, with
\* RS = 0 for a command and RS = 1 for a character; every value written to
\* the expander for a transaction carries that nibble in its upper four
\* bits and that RS bit; writeString sends the characters in string order.

C1_Sent ==
    CASE op.name = "clear" -> <<Cmd(1)>>
      [] op.name = "home" -> <<Cmd(2)>>
      [] op.name = "scrollLeft" -> <<Cmd(24)>>
      [] op.name = "scrollRight" -> <<Cmd(28)>>
      [] op.name = "setCursorPosition" -> <<Cmd(128 + op.args[1] + 64 * op.args[2])>>
      [] op.name = "writeString" ->
            [i \in 1..Len(op.args[1]) |-> Data(op.args[1][i].val)]

C1_SendTwoNibbles ==
    op.name \in {"clear", "home", "scrollLeft", "scrollRight",
                 "setCursorPosition", "writeString"}
    => LET l == Latched(out)
           w == Writes(out)
       IN  /\ raised = "none"
           /\ l = Nibbles(C1_Sent)
           /\ Len(w) = 3 * Len(l)
           /\ \A i \in 1..Len(w) :
                 /\ w[i].v \div 16 = l[(i + 2) \div 3].nib
                 /\ w[i].v % 2 = l[(i + 2) \div 3].rs

C1_Witness ==
    /\ op.name = "writeString"
    /\ Len(op.args[1]) = 2
    /\ op.args[1][1] # op.args[1][2]
    /\ Len(Latched(out)) = 4

----------------------------------------------------------------------------
\* C2: every 4-bit transaction is three expander writes, d, then d with the
\* enable bit set, then d with the enable bit cleared, the other bits the
\* same in all three; every write to the bus is followed by a sleep before
\* the next write (and before the call returns); the last write of a call
\* never leaves the enable bit set.

C2_PulseAndDelay ==
    LET x == Calls(out)
        w == Writes(out)
    IN  /\ Len(x) = Len(w)
        /\ op.name # "setBacklight" =>
              /\ Len(x) % 3 = 0
              /\ \A k \in 0..((Len(x) \div 3) - 1) :
                    /\ x[3 * k + 2].v = SetEnable(x[3 * k + 1].v)
                    /\ x[3 * k + 3].v = ClearEnable(x[3 * k + 1].v)
                    /\ w[3 * k + 2].v = SetEnable(w[3 * k + 1].v)
                    /\ w[3 * k + 3].v = ClearEnable(w[3 * k + 1].v)
                    /\ HasBit(w[3 * k + 1].v, 8) = HasBit(_backlightval, 8)
        /\ \A i \in 1..Len(out) :
              IsWrite(out[i]) => i < Len(out) /\ out[i + 1].t = "sleep"
        /\ w # <<>> =>
              /\ ~HasBit(w[Len(w)].v, 4)
              /\ ~HasBit(w[Len(w)].buf[Len(w[Len(w)].buf)], 4)

C2_Witness ==
    /\ op.name = "scrollRight"
    /\ Len(Writes(out)) = 6
    /\ HasBit(Writes(out)[2].v, 4)
    /\ HasBit(Writes(out)[5].v, 4)

----------------------------------------------------------------------------
\* C3: each _expanderWrite(data) hands the transport exactly one byte,
\* data | _backlightval, and nothing before it.

C3_OneByte ==
    \A i \in 1..Len(out) :
        IsCall(out[i]) =>
            /\ i < Len(out)
            /\ IsWrite(out[i + 1])
            /\ out[i + 1].buf =
                   <<IF HasBit(out[i].v, 8) THEN out[i].v ELSE out[i].v + _backlightval>>

----------------------------------------------------------------------------
\* C4: the backlight flag is set by init and by setBacklight(v # 0),
\* cleared by setBacklight(0) and left alone by everything else, and every
\* byte transmitted carries the backlight bit of the flag; setBacklight
\* transmits nothing with a nibble, RS or enable bit set.

C4_BacklightPersists ==
    /\ _backlightval =
           IF IsInit(op.name) THEN 8
           ELSE IF op.name = "setBacklight"
                THEN (IF op.args[1] = 0 THEN 0 ELSE 8)
                ELSE op.pre._backlightval
    /\ \A i \in 1..Len(BusBytes(out)) :
           HasBit(BusBytes(out)[i], 8) = (_backlightval = 8)
    /\ op.name = "setBacklight" =>
           /\ Len(Writes(out)) = 1
           /\ \A i \in 1..Len(BusBytes(out)) : BusBytes(out)[i] \in {0, 8}

----------------------------------------------------------------------------
\* C5: init, whatever the flags were, leaves backlight 0x08, display control
\* 0x04 and entry mode 0x02, and the LCD latches exactly: nibble 3 three
\* times, each followed by an extra 5 ms, nibble 2, then the commands 0x28,
\* 0x0C, 0x06, 0x01 and 0x02, the last two each followed by an extra 2 ms.

C5_InitSequence ==
    IsInit(op.name) =>
        /\ raised = "none"
        /\ _backlightval = 8
        /\ _displaycontrol = 4
        /\ _displaymode = 2
        /\ Latched(out) =
               <<[nib |-> 3, rs |-> 0], [nib |-> 3, rs |-> 0],
                 [nib |-> 3, rs |-> 0], [nib |-> 2, rs |-> 0]>>
               \o Nibbles(<<Cmd(40), Cmd(12), Cmd(6), Cmd(1), Cmd(2)>>)
        /\ Pauses(out) = <<8, 8, 8, 3, 3, 3, 3, 3, 3, 3, 3, 5, 3, 5>>

C5_Witness ==
    /\ op.name = "init"
    /\ op.pre._backlightval = 0
    /\ op.pre._displaycontrol = 3
    /\ op.pre._displaymode = 1
    /\ Len(Latched(out)) = 14

----------------------------------------------------------------------------
\* C6: setTextDirection(0) leaves the left-to-right bit (0x02) of
\* _displaymode set, setTextDirection(1) leaves it clear, and neither
\* changes the autoscroll bit (0x01).

C6_TextDirection ==
    op.name = "setTextDirection" =>
        /\ HasBit(_displaymode, 2) = (op.args[1] = 0)
        /\ HasBit(_displaymode, 1) = HasBit(op.pre._displaymode, 1)

----------------------------------------------------------------------------
\* C7: setAutoscroll and setTextDirection send one command, the Entry Mode
\* Set command 0x04 | _displaymode.

C7_EntryModeSet ==
    op.name \in {"setAutoscroll", "setTextDirection"} =>
        Received(op.name, out) = <<Cmd(4 + _displaymode)>>

----------------------------------------------------------------------------
\* C8: displayOn, cursorOn and blinkOn set or clear their own bit of
\* _displaycontrol (0x04, 0x02, 0x01), leave its other bits, _displaymode
\* and _backlightval alone and send the one command 0x08 | _displaycontrol;
\* the same call made again leaves the flags as they are and sends the same
\* command.

C8_Names == {"displayOn", "cursorOn", "blinkOn"}

C8_Bit(name) ==
    CASE name = "displayOn" -> 4
      [] name = "cursorOn" -> 2
      [] name = "blinkOn" -> 1

C8_OwnBit ==
    op.name \in C8_Names =>
        /\ raised = "none"
        /\ _displaycontrol \in 0..7
        /\ \A bit \in {1, 2, 4} :
              HasBit(_displaycontrol, bit) =
                  IF bit = C8_Bit(op.name) THEN op.args[1] # 0
                  ELSE HasBit(op.pre._displaycontrol, bit)
        /\ _displaymode = op.pre._displaymode
        /\ _backlightval = op.pre._backlightval
        /\ Received(op.name, out) = <<Cmd(8 + _displaycontrol)>>

C8_Again ==
    (op.name \in C8_Names /\ op'.name = op.name /\ op'.args = op.args)
    => /\ Self' = Self
       /\ Received(op.name, out') = Received(op.name, out)

C8_DisplayControl == [](C8_OwnBit) /\ [][C8_Again]_vars

C8_Witness ==
    /\ op.name = "cursorOn"
    /\ op.args[1] = 0
    /\ op.pre._displaycontrol = 7
    /\ _displaycontrol = 5

----------------------------------------------------------------------------
\* C9: loadCustomCharacter with 8 integers 0..255 and a location 0..7 ends
\* without an exception, having sent the command 0x40 | (location << 3) and
\* then the 8 values as data, in order, and leaves the flags alone.

C9_LoadCustomCharacter ==
    (/\ op.name = "loadCustomCharacter"
     /\ \A i \in 1..Len(op.args[1]) :
           op.args[1][i].kind = "int" /\ op.args[1][i].val \in 0..255)
    => /\ raised = "none"
       /\ Received(op.name, out) =
              <<Cmd(64 + 8 * op.args[2])>>
              \o [i \in 1..Len(op.args[1]) |-> Data(op.args[1][i].val)]
       /\ FlagsUnchanged

----------------------------------------------------------------------------
\* C10: the stored _displaycontrol is the low three bits of the last
\* Display Control command the LCD received and the stored _displaymode the
\* low two bits of the last Entry Mode Set command it received, with
\* _displaycontrol in 0..7 and _displaymode in 0..3.

C10_ShadowState ==
    /\ _displaycontrol = lcdDisplayControl
    /\ _displaymode = lcdEntryMode
    /\ _displaycontrol \in 0..7
    /\ _displaymode \in 0..3

====
